---- MODULE Spec2Model ----
(***************************************************************************)
(* Model of ludwig/models/modules/fully_connected_modules.py: the stack    *)
(* builder FCStack (default-fill, unit construction, call,                 *)
(* compute_output_shape) and the single-unit builder fc_layer.             *)
(*                                                                         *)
(* Python values: a dict is a function from its keys (strings) to values;  *)
(* a list is a sequence; None of a string-valued option is the string      *)
(* "None"; an optional number is a sequence of length <= 1 (<<>> is None). *)
(* Dropout rates are percentages (50 is 0.5).                              *)
(***************************************************************************)
EXTENDS Integers, Sequences, FiniteSets, TLC

VARIABLES
    arg,          \* the `layers` argument object the caller holds
    ctor,         \* arguments of the latest FCStack(...) call
    self_layers,  \* self.layers of the latest FCStack(...) call
    stack,        \* self.stack of the latest constructed FCStack
    status,       \* "unbuilt", "built", or the exception __init__ raised
    refilled,     \* the latest default-fill ran on a list filled before
    result,       \* what the latest call / compute_output_shape returned
    fc            \* the arguments of an fc_layer call, then what it did

vars == <<arg, ctor, self_layers, stack, status, refilled, result, fc>>

----------------------------------------------------------------------------
(* Bounds and input sets *)

MaxLayers == 2

None == "None"

\* The defaults of FCStack.__init__'s signature.
SignatureDefaults ==
    [fc_size |-> 256, activation |-> "relu", norm |-> None,
     dropout_rate |-> 0, weights_initializer |-> "glorot_uniform",
     weights_regularizer |-> None]

\* Another set of stack-level defaults a caller may pass.
OtherDefaults ==
    [fc_size |-> 3, activation |-> "sigmoid", norm |-> "layer",
     dropout_rate |-> 25, weights_initializer |-> "he_uniform",
     weights_regularizer |-> "l1"]

Defaults == {SignatureDefaults, OtherDefaults}

Absent == "<absent>"
NormChoices == {Absent, "", "batch", "layer", "bogus"}
RateChoices == {<<>>, <<0>>, <<50>>}

\* A caller-written layer dict: norm n (or absent), dropout_rate r (or
\* absent), weights_regularizer iff reg, the three other keys iff rest.
EntryKeys(n, r, reg, rest) ==
    (IF n = Absent THEN {} ELSE {"norm"})
    \cup (IF r = <<>> THEN {} ELSE {"dropout_rate"})
    \cup (IF reg THEN {"weights_regularizer"} ELSE {})
    \cup (IF rest THEN {"fc_size", "activation", "weights_initializer"} ELSE {})

Entry(n, r, reg, rest) ==
    [k \in EntryKeys(n, r, reg, rest) |->
        CASE k = "norm" -> n
          [] k = "dropout_rate" -> r[1]
          [] k = "weights_regularizer" -> "l2"
          [] k = "fc_size" -> 2
          [] k = "activation" -> "tanh"
          [] k = "weights_initializer" -> "he_normal"]

Entries ==
    { Entry(n, r, reg, rest) :
        <<n, r, reg, rest>> \in
            { t \in NormChoices \X RateChoices \X BOOLEAN \X BOOLEAN :
                t[1] = Absent \/ t[2] = <<>> } }

SeqsUpTo(S, n) == UNION { [1..m -> S] : m \in 0..n }

InputShapes == { <<8, 4>>, <<8, 2>> }

----------------------------------------------------------------------------
(* FCStack.__init__ : default-fill *)

EmptyDict == [k \in {} |-> 0]

\* A fill that assigns the default whether or not the key is present.
SetDefaultOverwriting(layer, key, value) ==
    [k \in DOMAIN layer \cup {key} |-> IF k = key THEN value ELSE layer[k]]

\* if key not in layer: layer[key] = value
SetDefault(layer, key, value) ==
    IF key \in DOMAIN layer
    THEN layer
    ELSE [k \in DOMAIN layer \cup {key} |-> IF k = key THEN value ELSE layer[k]]

\* The body of `for layer in self.layers:` (the last key is written with a
\* trailing blank in the source).
FillLayer(layer, d) ==
    LET l1 == SetDefault(layer, "fc_size", d.fc_size)
        l2 == SetDefault(l1, "activation", d.activation)
        l3 == SetDefault(l2, "norm", d.norm)
        l4 == SetDefault(l3, "dropout_rate", d.dropout_rate)
        l5 == SetDefault(l4, "weights_initializer", d.weights_initializer)
    IN  SetDefault(l5, "weights_regularizer ", d.weights_regularizer)

FillDefaults(layers, d) == [i \in 1..Len(layers) |-> FillLayer(layers[i], d)]

\* self.layers before the fill: num_layers empty dicts, or the given list.
InitialLayers(a, num_layers) ==
    IF a.isNone THEN [i \in 1..num_layers |-> EmptyDict] ELSE a.list

----------------------------------------------------------------------------
(* FCStack.__init__ : unit construction *)

Unit(kind, scope, units, name, rate, init, reg) ==
    [kind |-> kind, scope |-> scope, units |-> units, activation |-> name,
     rate |-> rate, kernel_initializer |-> init, kernel_regularizer |-> reg]

Dense(scope, units, init, reg) == Unit("Dense", scope, units, "", 0, init, reg)
BatchNormalization(scope) == Unit("BatchNormalization", scope, 0, "", 0, "", "")
LayerNormalization(scope) == Unit("LayerNormalization", scope, 0, "", 0, "", "")
Activation(scope, name) == Unit("Activation", scope, 0, name, 0, "", "")
Dropout(scope, rate) == Unit("Dropout", scope, 0, "", rate, "", "")

\* Python truthiness of a norm value.
Truthy(v) == v # None /\ v # ""

\* A norm step whose second test is an else branch: every truthy value
\* other than 'batch' gets a layer-normalization unit.
NormUnitsElseLayer(layer, scope) ==
    IF Truthy(layer["norm"])
    THEN IF layer["norm"] = "batch"
         THEN <<BatchNormalization(scope)>>
         ELSE <<LayerNormalization(scope)>>
    ELSE <<>>

NormUnits(layer, scope) ==
    IF Truthy(layer["norm"])
    THEN (IF layer["norm"] = "batch" THEN <<BatchNormalization(scope)>> ELSE <<>>)
         \o (IF layer["norm"] = "layer" THEN <<LayerNormalization(scope)>> ELSE <<>>)
    ELSE <<>>

\* A dropout step testing `>= 0` instead of `> 0`.
DropoutUnitsNonNegative(layer, scope) ==
    IF layer["dropout_rate"] >= 0
    THEN <<Dropout(scope, layer["dropout_rate"])>>
    ELSE <<>>

DropoutUnits(layer, scope) ==
    IF layer["dropout_rate"] > 0
    THEN <<Dropout(scope, layer["dropout_rate"])>>
    ELSE <<>>

DenseKeys == {"fc_size", "weights_initializer", "weights_regularizer"}

\* A loop body that appends the activation unit before the normalization.
LayerUnitsActivationFirst(layer, scope) ==
    IF ~({"fc_size", "weights_initializer", "weights_regularizer"} \subseteq DOMAIN layer)
    THEN [units |-> <<>>, raised |-> "KeyError"]
    ELSE [units |->
            <<Dense(scope, layer["fc_size"], layer["weights_initializer"],
                    layer["weights_regularizer"])>>
            \o <<Activation(scope, layer["activation"])>>
            \o NormUnits(layer, scope)
            \o DropoutUnits(layer, scope),
          raised |-> None]

\* The body of `for i, layer in enumerate(self.layers):`, scope 'fc_<i>'.
\* Reading a key the dict lacks raises KeyError.
LayerUnits(layer, scope) ==
    IF ~(DenseKeys \subseteq DOMAIN layer)
    THEN [units |-> <<>>, raised |-> "KeyError"]
    ELSE [units |->
            <<Dense(scope, layer["fc_size"], layer["weights_initializer"],
                    layer["weights_regularizer"])>>
            \o NormUnits(layer, scope)
            \o <<Activation(scope, layer["activation"])>>
            \o DropoutUnits(layer, scope),
          raised |-> None]

RECURSIVE BuildFrom(_, _, _)
BuildFrom(layers, i, acc) ==
    IF i > Len(layers)
    THEN [stack |-> acc, raised |-> None]
    ELSE LET g == LayerUnits(layers[i], i - 1)
         IN  IF g.raised # None
             THEN [stack |-> acc, raised |-> g.raised]
             ELSE BuildFrom(layers, i + 1, acc \o g.units)

BuildStack(layers) == BuildFrom(layers, 1, <<>>)

----------------------------------------------------------------------------
(* FCStack.call and FCStack.compute_output_shape *)

\* Keras' compute_output_shape of a unit: Dense sets the last dimension to
\* its width, the other units keep the shape.
UnitOutputShape(unit, shape) ==
    IF unit.kind = "Dense" THEN <<shape[1], unit.units>> ELSE shape

\* layer(hidden, training=training)
ApplyUnit(unit, hidden, training) ==
    [shape |-> UnitOutputShape(unit, hidden.shape),
     trace |-> Append(hidden.trace, [unit |-> unit, training |-> training])]

RECURSIVE CallFrom(_, _, _, _)
CallFrom(units, i, hidden, training) ==
    IF i > Len(units)
    THEN hidden
    ELSE CallFrom(units, i + 1, ApplyUnit(units[i], hidden, training), training)

\* A forward pass whose loop starts at the second unit.
callSkippingFirst(units, inputs, training) ==
    CallFrom(units, 2, [shape |-> inputs, trace |-> <<>>], training)

call(units, inputs, training) ==
    CallFrom(units, 1, [shape |-> inputs, trace |-> <<>>], training)

compute_output_shape(units, input_shape) ==
    IF units # <<>>
    THEN UnitOutputShape(units[Len(units)], input_shape)
    ELSE input_shape

NoResult ==
    [op |-> "none", input |-> <<>>, training |-> FALSE, shape |-> <<>>,
     trace |-> <<>>]

----------------------------------------------------------------------------
(* The stack builder as a state machine *)

NoCtor == [num_layers |-> 0, defaults |-> SignatureDefaults]
NoFc == [op |-> "none"]

Init ==
    /\ arg \in { [isNone |-> TRUE, list |-> <<>>] }
               \cup { [isNone |-> FALSE, list |-> l] : l \in SeqsUpTo(Entries, MaxLayers) }
    /\ ctor = NoCtor
    /\ self_layers = <<>>
    /\ stack = <<>>
    /\ status = "unbuilt"
    /\ refilled = FALSE
    /\ result = NoResult
    /\ fc = NoFc

\* FCStack(layers=arg, num_layers=n, default_*=d)
Construct(n, d) ==
    LET filled == FillDefaults(InitialLayers(arg, n), d)
        built == BuildStack(filled)
    IN  /\ arg' = IF arg.isNone THEN arg ELSE [arg EXCEPT !.list = filled]
        /\ ctor' = [num_layers |-> n, defaults |-> d]
        /\ self_layers' = filled
        /\ stack' = IF built.raised = None THEN built.stack ELSE <<>>
        /\ status' = IF built.raised = None THEN "built" ELSE built.raised
        /\ refilled' = (~arg.isNone /\ status # "unbuilt")
        /\ result' = NoResult
        /\ UNCHANGED fc

ConstructCounted == \E n \in 0..MaxLayers, d \in Defaults : arg.isNone /\ Construct(n, d)
ConstructListed == \E d \in Defaults : ~arg.isNone /\ Construct(1, d)

\* stack.call(inputs, training)
Call ==
    /\ status = "built"
    /\ \E inputs \in InputShapes, training \in BOOLEAN :
         LET hidden == call(stack, inputs, training)
         IN  result' = [op |-> "call", input |-> inputs, training |-> training,
                        shape |-> hidden.shape, trace |-> hidden.trace]
    /\ UNCHANGED <<arg, ctor, self_layers, stack, status, refilled, fc>>

\* stack.compute_output_shape(input_shape)
ComputeOutputShape ==
    /\ status = "built"
    /\ \E input_shape \in InputShapes :
         result' = [op |-> "shape", input |-> input_shape, training |-> FALSE,
                    shape |-> compute_output_shape(stack, input_shape),
                    trace |-> <<>>]
    /\ UNCHANGED <<arg, ctor, self_layers, stack, status, refilled, fc>>

Next == ConstructCounted \/ ConstructListed \/ Call \/ ComputeOutputShape

Spec == Init /\ [][Next]_vars

----------------------------------------------------------------------------
(* fc_layer *)

FcActivations == {"relu", "sigmoid", "tanh", "elu", "", None, "bogus"}
FcNorms == {None, "batch", "layer", "bogus"}
FcInitializers == {None, "glorot_uniform", "he_normal"}
FcRates == {<<>>, <<0>>, <<50>>}
FcDims == { <<4, 2>> }

\* The activation functions tf.nn has among the names used here.
TfNn == {"relu", "sigmoid", "tanh", "elu"}

FcArgs ==
    [activation : FcActivations, norm : FcNorms, is_training : BOOLEAN,
     weights : BOOLEAN, biases : BOOLEAN, dropout : BOOLEAN,
     dropout_rate : FcRates, initializer : FcInitializers,
     regularizer : {None}, dims : FcDims]

\* ludwig.models.modules.initializer_modules.get_initializer: the
\* initializer object registered under a name.
get_initializer(name) == [initializer |-> name]

\* tf.get_variable(name, shape, initializer=..., regularizer=...); shape and
\* initializer are optional, `applied` is the shape the initializer object
\* was called with before being passed (<<>> when passed uncalled).
Variable(name, shape, initializer, applied, regularizer) ==
    [name |-> name, shape |-> shape, initializer |-> initializer,
     applied |-> applied, regularizer |-> regularizer]

\* A selection that forgets 'tanh'.
ActivationInitializerNoTanh(activation) ==
    IF activation = "relu" THEN <<get_initializer("he_uniform")>>
    ELSE IF activation = "sigmoid"
         THEN <<get_initializer("glorot_uniform")>>
         ELSE <<>>

\* The else branch of `if initializer is not None`: the initializer the
\* activation selects, or none.
ActivationInitializer(activation) ==
    IF activation = "relu" THEN <<get_initializer("he_uniform")>>
    ELSE IF activation = "sigmoid" \/ activation = "tanh"
         THEN <<get_initializer("glorot_uniform")>>
         ELSE <<>>

\* The tf.get_variable calls of lines 37-63, in order.
FcVariables(a) ==
    (IF a.weights
     THEN <<>>
     ELSE IF a.initializer # None
          THEN <<Variable("weights", <<>>, <<get_initializer(a.initializer)>>,
                          a.dims, a.regularizer)>>
          ELSE <<Variable("weights", a.dims, ActivationInitializer(a.activation),
                          <<>>, a.regularizer)>>)
    \o (IF a.biases
        THEN <<>>
        ELSE <<Variable("biases", <<a.dims[2]>>, <<[constant |-> "0.01"]>>,
                        <<>>, None)>>)

\* A tensor operation: its name, the function name, rate and training flag
\* it was given (<<>> where it takes none).
Op(op, name, rate, training) ==
    [op |-> op, name |-> name, rate |-> rate, training |-> training]

FcNormOps(a) ==
    IF a.norm # None
    THEN IF a.norm = "batch" THEN <<Op("batch_norm", "", <<>>, <<a.is_training>>)>>
         ELSE IF a.norm = "layer" THEN <<Op("layer_norm", "", <<>>, <<>>)>>
         ELSE <<>>
    ELSE <<>>

\* A dropout step that tests the flag only.
FcDropoutOpsFlagOnly(a) ==
    IF a.dropout
    THEN <<Op("dropout", "", a.dropout_rate, <<a.is_training>>)>>
    ELSE <<>>

FcDropoutOps(a) ==
    IF a.dropout /\ a.dropout_rate # <<>>
    THEN <<Op("dropout", "", a.dropout_rate, <<a.is_training>>)>>
    ELSE <<>>

\* `if activation:` and getattr(tf.nn, activation)
FcActivationOps(a) ==
    IF a.activation # None /\ a.activation # ""
    THEN <<Op("activation", a.activation, <<>>, <<>>)>>
    ELSE <<>>

fc_layer(a) ==
    LET affine == <<Op("matmul_add", "", <<>>, <<>>)>>
        fails == a.activation # None /\ a.activation # "" /\ a.activation \notin TfNn
    IN  [op |-> "fc_layer", args |-> a, variables |-> FcVariables(a),
         ops |-> IF fails
                 THEN affine \o FcNormOps(a)
                 ELSE affine \o FcNormOps(a) \o FcActivationOps(a) \o FcDropoutOps(a),
         raised |-> IF fails THEN "AttributeError" ELSE None]

FcInit ==
    /\ arg = [isNone |-> TRUE, list |-> <<>>]
    /\ ctor = NoCtor
    /\ self_layers = <<>>
    /\ stack = <<>>
    /\ status = "unbuilt"
    /\ refilled = FALSE
    /\ result = NoResult
    /\ fc \in { [op |-> "pending", args |-> a] : a \in FcArgs }

\* fc_layer(inputs, in_count, out_count, ...) with the arguments drawn
FcLayer ==
    /\ fc.op = "pending"
    /\ fc' = fc_layer(fc.args)
    /\ UNCHANGED <<arg, ctor, self_layers, stack, status, refilled, result>>

FcNext == FcLayer

FcSpec == FcInit /\ [][FcNext]_vars

----------------------------------------------------------------------------
(* Properties of FCStack *)

RecognizedKeys ==
    {"fc_size", "activation", "norm", "dropout_rate", "weights_initializer",
     "weights_regularizer"}

Constructed == status # "unbuilt"

\* The indices of the units of the stack built under scope 'fc_<i-1>'.
Group(i) == { j \in 1..Len(stack) : stack[j].scope = i - 1 }

KindCount(i, kind) == Cardinality({ j \in Group(i) : stack[j].kind = kind })

\* C1: FCStack(num_layers=N) with everything else at its default completes
\* and yields exactly N pairs (Dense of width 256, Activation relu), with
\* no normalization and no dropout unit.
C1_DefaultStackIsPairs ==
    (Constructed /\ arg.isNone /\ ctor.defaults = SignatureDefaults) =>
        /\ status = "built"
        /\ Len(stack) = 2 * ctor.num_layers
        /\ \A k \in 1..ctor.num_layers :
              /\ stack[2 * k - 1].kind = "Dense"
              /\ stack[2 * k - 1].units = 256
              /\ stack[2 * k].kind = "Activation"
              /\ stack[2 * k].activation = "relu"

\* C2: after the default-fill every entry has every recognized key, and a
\* key the entry lacked before holds the stack-level default.
C2_FillCompletesEveryEntry ==
    [][(ConstructCounted \/ ConstructListed) =>
        LET before == InitialLayers(arg, ctor'.num_layers)
        IN  \A i \in 1..Len(self_layers') : \A k \in RecognizedKeys :
              /\ k \in DOMAIN self_layers'[i]
              /\ (k \notin DOMAIN before[i] =>
                    self_layers'[i][k] = ctor'.defaults[k])]_vars

\* C3: the default-fill only writes absent keys, so a present key keeps its
\* value and a fill of a list filled before (whatever the defaults of the
\* second stack) leaves the list as it was.
C3_FillIdempotent ==
    [][ConstructListed =>
        /\ Len(arg'.list) = Len(arg.list)
        /\ \A i \in 1..Len(arg.list) : \A k \in DOMAIN arg.list[i] :
              /\ k \in DOMAIN arg'.list[i]
              /\ arg'.list[i][k] = arg.list[i][k]
        /\ (Constructed => arg'.list = arg.list)]_vars

\* A second stack was built with other defaults from a list whose fc_size
\* the first stack's fill had set to 256.
C3_Witness ==
    /\ refilled
    /\ ctor.defaults = OtherDefaults
    /\ \E i \in 1..Len(arg.list) : arg.list[i]["fc_size"] = 256

\* C4: compute_output_shape returns the input shape for an empty stack and
\* otherwise [B, fc_size of the last configured layer], the shape the
\* forward pass produces.
C4_OutputShapeIsLastWidth ==
    result.op = "shape" =>
        IF stack = <<>>
        THEN result.shape = result.input
        ELSE /\ result.shape =
                  <<result.input[1], self_layers[Len(self_layers)]["fc_size"]>>
             /\ result.shape = call(stack, result.input, FALSE).shape

\* C5: a forward pass applies every unit of the stack once, in order, each
\* on the previous unit's output and with the same training flag, and
\* leaves the stack and the configuration list as they were.
C5_CallThreadsEveryUnit ==
    [][result'.op = "call" =>
        /\ stack' = stack
        /\ self_layers' = self_layers
        /\ arg' = arg
        /\ Len(result'.trace) = Len(stack)
        /\ \A j \in 1..Len(stack) :
              /\ result'.trace[j].unit = stack[j]
              /\ result'.trace[j].training = result'.training
        /\ result'.shape =
              IF stack = <<>>
              THEN result'.input
              ELSE <<result'.input[1], self_layers[Len(self_layers)]["fc_size"]>>]_vars

C5_Witness ==
    /\ result.op = "call"
    /\ result.training
    /\ Len(stack) >= 5
    /\ result.shape # result.input

GroupPatterns ==
    LET norms == {<<>>, <<"BatchNormalization">>, <<"LayerNormalization">>}
        drops == {<<>>, <<"Dropout">>}
    IN  { <<"Dense">> \o n \o <<"Activation">> \o d : n \in norms, d \in drops }

\* C6: a completed construction from N entries has N dense units, one
\* group per entry in configuration order, each group in the order dense,
\* [normalization], activation, [dropout]; appending an entry never
\* shortens the sequence.
C6_GroupsFollowConfiguration ==
    status = "built" =>
        /\ Cardinality({ j \in 1..Len(stack) : stack[j].kind = "Dense" })
              = Len(self_layers)
        /\ \A j \in 1..Len(stack) : stack[j].scope \in 0..(Len(self_layers) - 1)
        /\ \A j, k \in 1..Len(stack) : j < k => stack[j].scope <= stack[k].scope
        /\ \A i \in 1..Len(self_layers) :
              /\ Group(i) # {}
              /\ LET first == CHOOSE j \in Group(i) : \A k \in Group(i) : j <= k
                 IN  /\ [k \in 1..Cardinality(Group(i)) |-> stack[first + k - 1].kind]
                          \in GroupPatterns
                     /\ stack[first].units = self_layers[i]["fc_size"]
        /\ \A e \in Entries :
              LET more == BuildStack(FillDefaults(Append(self_layers, e), ctor.defaults))
              IN  more.raised = None => Len(more.stack) >= Len(stack)

C6_Witness ==
    /\ status = "built"
    /\ Len(self_layers) = 2
    /\ Len(stack) >= 7

\* C7: the norm value alone decides the normalization unit of a layer:
\* 'batch' gives one batch-normalization unit and no other, 'layer' one
\* layer-normalization unit and no other, any other value none, and no
\* norm value makes the construction raise.
C7_NormDecidesNormalizationUnit ==
    /\ status = "built" =>
          \A i \in 1..Len(self_layers) :
              LET n == self_layers[i]["norm"]
              IN  /\ KindCount(i, "BatchNormalization") = (IF n = "batch" THEN 1 ELSE 0)
                  /\ KindCount(i, "LayerNormalization") = (IF n = "layer" THEN 1 ELSE 0)
    /\ (Constructed /\ status # "built") =>
          \E i \in 1..Len(self_layers) : ~(DenseKeys \subseteq DOMAIN self_layers[i])

C7_Witness ==
    /\ status = "built"
    /\ \E i, j \in 1..Len(self_layers) :
          /\ self_layers[i]["norm"] = "bogus"
          /\ self_layers[j]["norm"] = "batch"

\* C8: a layer with dropout_rate 0 has no dropout unit, a layer with
\* dropout_rate > 0 exactly one, with that rate, as the last unit of its
\* group; the stack has as many dropout units as entries with rate > 0.
C8_DropoutFollowsRate ==
    status = "built" =>
        /\ \A i \in 1..Len(self_layers) :
              LET rate == self_layers[i]["dropout_rate"]
              IN  /\ rate = 0 => KindCount(i, "Dropout") = 0
                  /\ rate > 0 =>
                        /\ KindCount(i, "Dropout") = 1
                        /\ \E j \in Group(i) :
                              /\ \A k \in Group(i) : k <= j
                              /\ stack[j].kind = "Dropout"
                              /\ stack[j].rate = rate
        /\ Cardinality({ j \in 1..Len(stack) : stack[j].kind = "Dropout" })
              = Cardinality({ i \in 1..Len(self_layers) :
                                self_layers[i]["dropout_rate"] > 0 })

C8_Witness ==
    /\ status = "built"
    /\ \E i, j \in 1..Len(self_layers) :
          /\ self_layers[i]["dropout_rate"] = 0
          /\ self_layers[j]["dropout_rate"] = 50

----------------------------------------------------------------------------
(* Properties of fc_layer *)

FcDone == fc.op = "fc_layer"

VariablesNamed(name) ==
    { j \in 1..Len(fc.variables) : fc.variables[j].name = name }

OpsNamed(op) == { j \in 1..Len(fc.ops) : fc.ops[j].op = op }

\* C9: without weights the initializer is the explicit one if given, else
\* he_uniform for relu, glorot_uniform for sigmoid and tanh, else none (the
\* framework's default); with weights no weight variable is created; a bias
\* variable is created iff no biases are supplied.
C9_InitializerPrecedence ==
    FcDone =>
        LET a == fc.args
            expected ==
                IF a.initializer # None THEN <<get_initializer(a.initializer)>>
                ELSE IF a.activation = "relu" THEN <<get_initializer("he_uniform")>>
                ELSE IF a.activation \in {"sigmoid", "tanh"}
                     THEN <<get_initializer("glorot_uniform")>>
                     ELSE <<>>
        IN  /\ a.weights => VariablesNamed("weights") = {}
            /\ ~a.weights =>
                  /\ Cardinality(VariablesNamed("weights")) = 1
                  /\ \A j \in VariablesNamed("weights") :
                        fc.variables[j].initializer = expected
            /\ Cardinality(VariablesNamed("biases")) = (IF a.biases THEN 0 ELSE 1)

C9_Witness ==
    /\ FcDone
    /\ ~fc.args.weights
    /\ fc.args.initializer = None
    /\ fc.args.activation = "tanh"
    /\ fc.args.biases

OpRank(op) ==
    CASE op = "matmul_add" -> 1
      [] op \in {"batch_norm", "layer_norm"} -> 2
      [] op = "activation" -> 3
      [] op = "dropout" -> 4

\* C10: fc_layer applies the affine transform, then normalization, then
\* activation, then dropout; a call that returns applied dropout iff the
\* flag is true and the rate is not None, at that rate and with is_training;
\* batch norm only for norm 'batch' (with is_training), layer norm only for
\* 'layer' (without it); activation only for a non-empty name.
C10_StagesInOrder ==
    FcDone =>
        LET a == fc.args
        IN  /\ fc.ops # <<>> /\ fc.ops[1].op = "matmul_add"
            /\ \A j, k \in 1..Len(fc.ops) :
                  j < k => OpRank(fc.ops[j].op) < OpRank(fc.ops[k].op)
            /\ OpsNamed("batch_norm") # {} <=> a.norm = "batch"
            /\ OpsNamed("layer_norm") # {} <=> a.norm = "layer"
            /\ \A j \in OpsNamed("batch_norm") : fc.ops[j].training = <<a.is_training>>
            /\ \A j \in OpsNamed("layer_norm") : fc.ops[j].training = <<>>
            /\ OpsNamed("activation") # {} => a.activation \notin {None, ""}
            /\ \A j \in OpsNamed("activation") : fc.ops[j].name = a.activation
            /\ fc.raised = None =>
                  /\ OpsNamed("activation") # {} <=> a.activation \notin {None, ""}
                  /\ OpsNamed("dropout") # {} <=> (a.dropout /\ a.dropout_rate # <<>>)
                  /\ \A j \in OpsNamed("dropout") :
                        /\ fc.ops[j].rate = a.dropout_rate
                        /\ fc.ops[j].training = <<a.is_training>>

C10_Witness ==
    /\ FcDone
    /\ Len(fc.ops) = 4
    /\ fc.args.norm = "batch"
    /\ ~fc.args.is_training
    /\ fc.args.dropout_rate = <<0>>

====
